---- MODULE Spec2Model ----
(***************************************************************************)
(* Verification model of the repository's execution gateway                *)
(* (factory/mcp-router: POST /execute with its billing middleware and      *)
(* Firestore transaction), of the RIL logic audit (simulateExecuteLogic    *)
(* over MockTx) and of the AXCONTROL decision cycle (XOR projection,       *)
(* existence filter, audit append, snapshot response), with the ledger     *)
(* replay, the run_javascript tool and the autoFixLy flow.                 *)
(***************************************************************************)
EXTENDS Integers, Naturals, Sequences, FiniteSets, TLC

(***************************************************************************)
(* Bounds                                                                  *)
(***************************************************************************)
NReq == 2          \* number of /execute requests (or audit runs) in a behaviour
MaxQuota == 2      \* largest initial billing.quota_remaining
MaxTime == 1       \* number of clock ticks of new Date()
MaxCycles == 2     \* number of decision cycles in a behaviour
NInv == 2          \* number of run_javascript invocations in a behaviour
NFollowed == 1     \* requests followed through a contended transaction
MaxLen == 3        \* pieces of text in the target file before autoFixLy runs
MaxRuns == 2       \* runs of autoFixLy on the target file

(***************************************************************************)
(* Program constants                                                       *)
(***************************************************************************)
MaxAttempts == 5   \* attempts of db.runTransaction before it rejects

Principals == {"A", "B"}
Keys == {"k1", "k2"}
Reqs == 1..NReq

NoLog == [user_id |-> "none", result |-> << >>, request_id |-> 0]
NoResult == << >>
NoReq == [uid |-> "none", key |-> "none"]

VARIABLES
    users,      \* Firestore collection 'users': uid -> document
    logs,       \* Firestore collection 'execution_logs': key -> document
    userVer,    \* write version of each user document (conflict detection)
    now,        \* the wall clock read by new Date()
    pc,         \* position of each request in its handler
    req,        \* req.user.uid and req.body.idempotency_key of each request
    authz,      \* what the Authorization header of each request holds
    mockResult, \* the handler's local mockResult
    txQuota,    \* currentQuota read inside the transaction function
    txVer,      \* version of the user document the transaction read
    attempts,   \* attempts of the running transaction
    outcome,    \* how the request ended
    response,   \* body sent back by res.json
    effects,    \* number of task executions performed per key
    initQuota,  \* quota_remaining of each user at start (history)
    seqAfter,   \* requests already answered when a request was submitted (history)
    cstage,     \* stage of the running decision cycle
    Q_now,      \* 6-bit code of the current state
    delta,      \* the pressure received by the running cycle
    Q_next,     \* projected code of the running cycle
    EXISTENCE_STATE_MAP, \* the lookup table, as far as it has been read
    policy_decision,     \* verdict and reason of the policy evaluator
    command,    \* the sealed command envelope, or NoCommand
    executed,   \* the executor performed the command's effect
    recorded,   \* result of the audit append of the running cycle
    sinkFailed, \* the audit sink rejected the write (history)
    stop_reason,\* stop reason of the running cycle
    policy_context,      \* the rules that deny, gathered for the running cycle
    trace,      \* stages the running cycle has gone through (history)
    snapshot,   \* the last response of the bridge
    ledger,     \* the audit ledger
    cycles,     \* number of cycles answered
    tampered,   \* index of the stored record that was edited, 0 when none (history)
    editedLast, \* the edited record was the last of the chain when edited (history)
    rstate,     \* the replay engine: off, running, matched, halted
    rpos,       \* number of records the replay has processed
    divergence_point,    \* the record the replay reports as diverging, or 0
    replayed,   \* verdicts and stop reasons the replay has derived
    inv,        \* run_javascript: each invocation's parameters, locals and position
    cwd,        \* run_javascript: the files of the working directory, by name
    targetFile, \* autoFixLy: the target file (whether it exists, its content)
    flowResult, \* autoFixLy: what the last run of the flow returned
    runs        \* autoFixLy: number of runs made

gatewayVars == << users, logs, userVer, now, pc, req, authz, mockResult, txQuota, txVer,
                  attempts, outcome, response, effects, initQuota, seqAfter >>

cycleVars == << cstage, Q_now, delta, Q_next, EXISTENCE_STATE_MAP,
                policy_context, policy_decision, command, executed, recorded,
                sinkFailed, stop_reason, trace, snapshot, ledger, cycles >>

\* what the gateway's steps, and the cycle's steps, leave alone
replayVars == << tampered, editedLast, rstate, rpos, divergence_point, replayed >>

toolVars == << inv, cwd >>

fixVars == << targetFile, flowResult, runs >>

nonGatewayVars == << cycleVars, replayVars, toolVars, fixVars >>
nonCycleVars == << gatewayVars, replayVars, toolVars, fixVars >>

vars == << gatewayVars, cycleVars, replayVars, toolVars, fixVars >>

\* users/<uid>: status is subscription.status ("missing": no subscription);
\* billing tells whether the document has a billing map and whether the map
\* has a quota_remaining ("missing", "no_quota", "present").
UserDoc(q) ==
    [exists |-> TRUE, status |-> "active", billing |-> "present",
     quota_remaining |-> q]

\* no execution log, no request submitted
NoRequests ==
    /\ logs = [k \in Keys |-> NoLog]
    /\ userVer = [p \in Principals |-> 0]
    /\ now = 0
    /\ pc = [r \in Reqs |-> "idle"]
    /\ req = [r \in Reqs |-> NoReq]
    /\ authz = [r \in Reqs |-> "unset"]
    /\ mockResult = [r \in Reqs |-> NoResult]
    /\ txQuota = [r \in Reqs |-> 0]
    /\ txVer = [r \in Reqs |-> 0]
    /\ attempts = [r \in Reqs |-> 0]
    /\ outcome = [r \in Reqs |-> "none"]
    /\ response = [r \in Reqs |-> NoResult]
    /\ effects = [k \in Keys |-> 0]
    /\ seqAfter = [r \in Reqs |-> {}]

InitGateway ==
    /\ initQuota \in [Principals -> 0..MaxQuota]
    /\ users = [p \in Principals |-> UserDoc(initQuota[p])]
    /\ NoRequests

(***************************************************************************)
(* The decision cycle: codes, verdicts and the state before any cycle.     *)
(***************************************************************************)
Bits == 6                       \* width of a projected state code
Codes == 0..(2^Bits - 1)        \* the closed space of 64 codes
ExistenceState == {"SINH", "TRI", "TU", "DIET"}
DeltaSamples == {0, 21, 42}     \* pressures offered to the running cycles
Rules == << "surface_allowlist", "app_boundary", "rate_limit", "time_guard" >>

NoCode == -1
NoCommand == [command_type |-> "NONE"]
NoDecision == [verdict |-> "NONE", reason |-> "NONE"]
NoSnapshot == [decision |-> "IDLE"]

InitCycle ==
    /\ cstage = "idle"
    /\ Q_now = 0
    /\ delta = NoCode
    /\ Q_next = NoCode
    /\ EXISTENCE_STATE_MAP = [c \in Codes |-> "unread"]
    /\ policy_context = {}
    /\ policy_decision = NoDecision
    /\ command = NoCommand
    /\ executed = FALSE
    /\ recorded = FALSE
    /\ sinkFailed = FALSE
    /\ stop_reason = "NONE"
    /\ trace = << >>
    /\ snapshot = NoSnapshot
    /\ ledger = << >>
    /\ cycles = 0

InitReplay ==
    /\ tampered = 0
    /\ editedLast = FALSE
    /\ rstate = "off"
    /\ rpos = 0
    /\ divergence_point = 0
    /\ replayed = << >>

(***************************************************************************)
(* run_javascript (js-code-sandbox): invocations and the working directory *)
(***************************************************************************)
Invs == 1..NInv
FileNames == 0..MaxTime         \* temp_script_<Date.now()>.ts, by its stamp
NoFile == "ENOENT"
Scripts == {"script_a", "script_b"}
Undefined == << >>              \* timeout_seconds not given
TimeoutArgs == {Undefined, << 60 >>, << 61 >>}
DefaultTimeoutSeconds == 5
MsPerSecond == 1000

NoInv ==
    [st |-> "idle", javascript |-> NoFile, timeout_seconds |-> Undefined,
     scriptFileName |-> 0, timeout |-> 0, ran |-> NoFile, code |-> "none"]

InitTool ==
    /\ inv = [i \in Invs |-> NoInv]
    /\ cwd = [f \in FileNames |-> NoFile]

(***************************************************************************)
(* autoFixLy (ops_agent): the target file as a sequence of pieces of text. *)
(* beforeStr is the print statement the flow looks for; afterStr is the    *)
(* logger call followed by that same print statement.                      *)
(***************************************************************************)
beforeStr == "print_tool_cli_exit"
loggerStr == "loop_logger_log_AuditRecord"
otherStr == "other_text"
afterStr == << loggerStr, beforeStr >>

Pieces == {beforeStr, loggerStr, otherStr}
NoFlowResult == [success |-> FALSE, message |-> "none", replacementsCount |-> 0]
Absent == [exists |-> FALSE, content |-> << >>]

InitFix ==
    /\ targetFile = Absent
    /\ flowResult = NoFlowResult
    /\ runs = 0

Init == InitGateway /\ InitCycle /\ InitReplay /\ InitTool /\ InitFix

Answered == {r \in Reqs : pc[r] = "done"}

(***************************************************************************)
(* POST /execute: a request arrives with its Authorization header and its  *)
(* body.  The header holds nothing, a scheme without a token, a token that *)
(* fails verification, or a token signed for the principal uid; uid is     *)
(* what authenticateJWT stores in req.user when it accepts the token.  The *)
(* body of a request that is refused there is never read: one key stands   *)
(* for all.  A token may be signed for a payload without uid and a body    *)
(* may come without idempotency_key ("none").                              *)
(***************************************************************************)
Headers == {"absent", "no_token", "invalid", "valid"}

Refused == {<< hdr, "none", "k1" >> : hdr \in Headers \ {"valid"}}

\* requests of known principals that carry an idempotency key
Arrivals ==
    Refused \cup {<< "valid", uid, key >> : uid \in Principals, key \in Keys}

\* every request: also tokens without uid and bodies without key
ArrivalsAny ==
    Arrivals \cup {<< "valid", "none", "k1" >>}
             \cup {<< "valid", uid, "none" >> : uid \in Principals}

PostExecute(r, hdr, uid, key) ==
    /\ pc[r] = "idle"
    /\ (IF r = 1 THEN TRUE ELSE pc[r - 1] # "idle")
    /\ authz' = [authz EXCEPT ![r] = hdr]
    /\ req' = [req EXCEPT ![r] = [uid |-> uid, key |-> key]]
    /\ pc' = [pc EXCEPT ![r] = "auth"]
    /\ seqAfter' = [seqAfter EXCEPT ![r] = Answered]
    /\ UNCHANGED << users, logs, userVer, now, mockResult, txQuota, txVer,
                    attempts, outcome, response, effects, initQuota,
                    nonGatewayVars >>

\* variant: the 401 for a missing token does not return, the chain goes on
AuthAnswer_NoReturn(hdr) ==
    IF hdr = "absent" THEN "E401"
    ELSE IF hdr = "invalid" THEN "E403"
    ELSE "next"

\* what authenticateJWT answers for a header
AuthAnswer(hdr) ==
    IF hdr = "absent" THEN "E401"
    ELSE IF hdr = "no_token" THEN "E401"
    ELSE IF hdr = "invalid" THEN "E403"
    ELSE "next"

\* authenticateJWT: res.sendStatus(401 | 403), or req.user = user and next()
authenticateJWT(r) ==
    /\ pc[r] = "auth"
    /\ LET a == AuthAnswer(authz[r]) IN
         IF a = "next"
         THEN /\ pc' = [pc EXCEPT ![r] = "billing"]
              /\ UNCHANGED outcome
         ELSE /\ pc' = [pc EXCEPT ![r] = "done"]
              /\ outcome' = [outcome EXCEPT ![r] = a]
    /\ UNCHANGED << users, logs, userVer, now, req, mockResult, txQuota, txVer,
                    attempts, response, effects, initQuota, seqAfter,
                    authz, nonGatewayVars >>

(***************************************************************************)
(* checkBillingStatus: answers 401 without a uid, reads the user document  *)
(* (throws: the read fails) and answers 402/429/500 or calls next().       *)
(* next() runs the handler up to its first await: without idempotency_key  *)
(* it answers 400, otherwise it issues the read of the execution log.      *)
(***************************************************************************)
\* billing.quota_remaining <= 0; the comparison of undefined is false
QuotaLeqZero(doc) ==
    IF doc.billing = "present" THEN doc.quota_remaining <= 0 ELSE FALSE

BillingAnswer(uid, u, throws) ==
    IF uid = "none" THEN "E401"
    ELSE IF throws THEN "E500_billing"
    ELSE IF ~u[uid].exists THEN "E402"
    ELSE IF u[uid].status # "active" THEN "E402"
    ELSE IF u[uid].billing = "missing" THEN "E429"
    ELSE IF QuotaLeqZero(u[uid]) THEN "E429"
    ELSE "next"

\* variant: the handler goes on without idempotency_key
HandlerEntry_NoKeyCheck(key) == "lookup"

\* if (!idempotency_key) return res.status(400)
HandlerEntry(key) == IF key = "none" THEN "E400" ELSE "lookup"

checkBillingStatus(r, throws) ==
    /\ pc[r] = "billing"
    /\ LET a == BillingAnswer(req[r].uid, users, throws)
           h == HandlerEntry(req[r].key) IN
         IF a = "next"
         THEN IF h = "lookup"
              THEN /\ pc' = [pc EXCEPT ![r] = "lookup"]
                   /\ UNCHANGED outcome
              ELSE /\ pc' = [pc EXCEPT ![r] = "done"]
                   /\ outcome' = [outcome EXCEPT ![r] = h]
         ELSE /\ pc' = [pc EXCEPT ![r] = "done"]
              /\ outcome' = [outcome EXCEPT ![r] = a]
    /\ UNCHANGED << users, logs, userVer, now, req, mockResult, txQuota, txVer,
                    attempts, response, effects, initQuota, seqAfter,
                    authz, nonGatewayVars >>

(***************************************************************************)
(* Handler body, step 1: the idempotency check reads execution_logs/<key>  *)
(* outside any transaction; on a miss the task is executed (mockResult,    *)
(* stamped with new Date()) and the transaction is started.                *)
(***************************************************************************)
PerformTask(t) == [status |-> "success", execution_time |-> t]

\* variant: a log counts only for the principal that wrote it
LogHit_ByPrincipal(l, key, uid) == l[key] # NoLog /\ l[key].user_id = uid

\* existingLog.exists for execution_logs/<idempotency_key>
LogHit(l, key, uid) == l[key] # NoLog

IdempotencyCheck(r) ==
    /\ pc[r] = "lookup"
    /\ LET key == req[r].key IN
         IF LogHit(logs, key, req[r].uid)
         THEN /\ response' = [response EXCEPT ![r] = logs[key].result]
              /\ outcome' = [outcome EXCEPT ![r] = "Replayed"]
              /\ pc' = [pc EXCEPT ![r] = "done"]
              /\ UNCHANGED << mockResult, effects, attempts >>
         ELSE /\ mockResult' = [mockResult EXCEPT ![r] = PerformTask(now)]
              /\ effects' = [effects EXCEPT ![key] = @ + 1]
              /\ attempts' = [attempts EXCEPT ![r] = 1]
              /\ pc' = [pc EXCEPT ![r] = "tx"]
              /\ UNCHANGED << response, outcome >>
    /\ UNCHANGED << users, logs, userVer, now, req, txQuota, txVer,
                    initQuota, seqAfter,
                    authz, nonGatewayVars >>

(***************************************************************************)
(* db.runTransaction, the update function: tx.get(userRef), the existence  *)
(* and quota checks, then tx.update and tx.set are buffered.  A throw      *)
(* rejects the transaction and the catch block answers 500.                *)
(***************************************************************************)
\* variant: the quota test lets a quota of exactly 0 through
QuotaCheck_OffByOne(doc) ==
    IF ~doc.exists THEN "E500_user"
    ELSE IF doc.quota_remaining < 0 THEN "E500_quota"
    ELSE "ok"

\* currentQuota = userDoc.data()?.billing?.quota_remaining || 0
currentQuota(doc) ==
    IF doc.billing = "present" THEN doc.quota_remaining ELSE 0

QuotaCheck(doc) ==
    IF ~doc.exists THEN "E500_user"
    ELSE IF currentQuota(doc) <= 0 THEN "E500_quota"
    ELSE "ok"

TxGet(r) ==
    /\ pc[r] = "tx"
    /\ LET uid == req[r].uid
           c == QuotaCheck(users[uid]) IN
         IF c = "ok"
         THEN /\ txQuota' = [txQuota EXCEPT ![r] = currentQuota(users[uid])]
              /\ txVer' = [txVer EXCEPT ![r] = userVer[uid]]
              /\ pc' = [pc EXCEPT ![r] = "commit"]
              /\ UNCHANGED outcome
         ELSE /\ outcome' = [outcome EXCEPT ![r] = c]
              /\ pc' = [pc EXCEPT ![r] = "done"]
              /\ UNCHANGED << txQuota, txVer >>
    /\ UNCHANGED << users, logs, userVer, now, req, mockResult, attempts,
                    response, effects, initQuota, seqAfter,
                    authz, nonGatewayVars >>

(***************************************************************************)
(* The writes one commit applies, atomically: increment(-1) on the user's  *)
(* quota and set() of the execution log under the idempotency key.         *)
(***************************************************************************)
CommitUsers(u, uid) ==
    [u EXCEPT ![uid].quota_remaining = @ - 1]

CommitLogs(l, key, uid, result, rid) ==
    [l EXCEPT ![key] = [user_id |-> uid, result |-> result, request_id |-> rid]]

(***************************************************************************)
(* Commit of the transaction: it succeeds when the user document it read   *)
(* is unchanged, otherwise the update function is run again, up to         *)
(* MaxAttempts times.  After the commit the handler answers mockResult.    *)
(***************************************************************************)
\* variant: the commit does not look at what was written since the read
Conflict_Never(ver, read) == FALSE

\* the user document was written after the transaction read it
Conflict(ver, read) == ver # read

\* variant: the transaction is retried whatever the number of attempts
MayRetry_Always(a) == TRUE

\* the transaction is run again while attempts remain
MayRetry(a) == a < MaxAttempts

TxCommit(r) ==
    /\ pc[r] = "commit"
    /\ LET uid == req[r].uid
           key == req[r].key IN
         IF ~Conflict(userVer[uid], txVer[r])
         THEN /\ users' = CommitUsers(users, uid)
              /\ userVer' = [userVer EXCEPT ![uid] = @ + 1]
              /\ logs' = CommitLogs(logs, key, uid, mockResult[r], r)
              /\ outcome' = [outcome EXCEPT ![r] = "Executed"]
              /\ response' = [response EXCEPT ![r] = mockResult[r]]
              /\ pc' = [pc EXCEPT ![r] = "done"]
              /\ UNCHANGED attempts
         ELSE IF MayRetry(attempts[r])
         THEN /\ attempts' = [attempts EXCEPT ![r] = @ + 1]
              /\ pc' = [pc EXCEPT ![r] = "tx"]
              /\ UNCHANGED << users, userVer, logs, outcome, response >>
         ELSE /\ outcome' = [outcome EXCEPT ![r] = "E500_tx"]
              /\ pc' = [pc EXCEPT ![r] = "done"]
              /\ UNCHANGED << users, userVer, logs, response, attempts >>
    /\ UNCHANGED << now, req, mockResult, txQuota, txVer, effects,
                    initQuota, seqAfter,
                    authz, nonGatewayVars >>

(***************************************************************************)
(* The server process dies: every request in flight is lost, buffered      *)
(* transaction writes are discarded, the store keeps what was committed.   *)
(***************************************************************************)
InFlight == {r \in Reqs : pc[r] \in {"auth", "billing", "lookup", "tx", "commit"}}

Crash ==
    /\ InFlight # {}
    /\ pc' = [r \in Reqs |-> IF r \in InFlight THEN "crashed" ELSE pc[r]]
    /\ UNCHANGED << users, logs, userVer, now, req, mockResult, txQuota, txVer,
                    attempts, outcome, response, effects, initQuota, seqAfter,
                    authz, nonGatewayVars >>

(***************************************************************************)
(* The clock read by new Date() advances.                                  *)
(***************************************************************************)
Tick ==
    /\ now < MaxTime
    /\ now' = now + 1
    /\ UNCHANGED << users, logs, userVer, pc, req, mockResult, txQuota, txVer,
                    attempts, outcome, response, effects, initQuota, seqAfter,
                    authz, nonGatewayVars >>

Next ==
    \/ \E r \in Reqs, a \in Arrivals : PostExecute(r, a[1], a[2], a[3])
    \/ \E r \in Reqs : authenticateJWT(r)
    \/ \E r \in Reqs : checkBillingStatus(r, FALSE)
    \/ \E r \in Reqs : IdempotencyCheck(r)
    \/ \E r \in Reqs : TxGet(r)
    \/ \E r \in Reqs : TxCommit(r)
    \/ Crash
    \/ Tick

Spec == Init /\ [][Next]_vars

(***************************************************************************)
(* The gateway under contention: next to the requests that are followed,   *)
(* transactions of other requests of the same principal (other keys,       *)
(* other server instances) commit on the user document.  The principal     *)
(* starts with enough quota for a transaction to lose every attempt.       *)
(***************************************************************************)
RetryQuota == MaxAttempts + 1

InitRetry ==
    /\ initQuota = [p \in Principals |-> RetryQuota]
    /\ users = [p \in Principals |-> UserDoc(initQuota[p])]
    /\ NoRequests
    /\ InitCycle
    /\ InitReplay
    /\ InitTool
    /\ InitFix

\* the commit of a transaction of a request that is not followed: its log
\* goes under a key of its own
OtherCommit(uid) ==
    /\ QuotaCheck(users[uid]) = "ok"
    /\ users' = CommitUsers(users, uid)
    /\ userVer' = [userVer EXCEPT ![uid] = @ + 1]
    /\ UNCHANGED << logs, now, pc, req, mockResult, txQuota, txVer, attempts,
                    outcome, response, effects, initQuota, seqAfter,
                    authz, nonGatewayVars >>

\* the steps of one request, each a callback of the event loop
RequestStep(r) ==
    \/ authenticateJWT(r)
    \/ checkBillingStatus(r, FALSE)
    \/ IdempotencyCheck(r)
    \/ TxGet(r)
    \/ TxCommit(r)

Followed == 1..NFollowed

NextRetry ==
    \/ \E r \in Followed, key \in Keys : PostExecute(r, "valid", "A", key)
    \/ \E r \in Followed : RequestStep(r)
    \/ OtherCommit("A")

SpecRetrySafe == InitRetry /\ [][NextRetry]_vars

SpecRetry == SpecRetrySafe /\ \A r \in Followed : WF_vars(RequestStep(r))

(***************************************************************************)
(* The gateway over user documents of every shape: no document, no         *)
(* subscription (as the seeded test user), an inactive one, no billing     *)
(* map, a billing map without quota_remaining; and over every request.     *)
(***************************************************************************)
NoDoc ==
    [exists |-> FALSE, status |-> "missing", billing |-> "missing",
     quota_remaining |-> 0]

DocShapes ==
    {NoDoc} \cup
    {[exists |-> TRUE, status |-> st, billing |-> b, quota_remaining |-> q] :
        st \in {"missing", "inactive", "active"},
        b \in {"missing", "no_quota"}, q \in {0}} \cup
    {[exists |-> TRUE, status |-> st, billing |-> "present",
      quota_remaining |-> q] :
        st \in {"missing", "inactive", "active"}, q \in 0..MaxQuota}

InitBilling ==
    /\ users \in {[p \in Principals |->
                      IF p = "A" THEN d ELSE UserDoc(MaxQuota)] :
                  d \in DocShapes}
    /\ initQuota = [p \in Principals |-> users[p].quota_remaining]
    /\ NoRequests
    /\ InitCycle
    /\ InitReplay
    /\ InitTool
    /\ InitFix

NextBilling ==
    \/ \E r \in Reqs, a \in ArrivalsAny : PostExecute(r, a[1], a[2], a[3])
    \/ \E r \in Reqs : authenticateJWT(r)
    \/ \E r \in Reqs, throws \in BOOLEAN : checkBillingStatus(r, throws)
    \/ \E r \in Reqs : IdempotencyCheck(r)
    \/ \E r \in Reqs : TxGet(r)
    \/ \E r \in Reqs : TxCommit(r)

SpecBilling == InitBilling /\ [][NextBilling]_vars

(***************************************************************************)
(* RIL logic audit: runAudit calls simulateExecuteLogic over a MockTx      *)
(* whose get/set/update act directly on the shared globalState.  Each call *)
(* is awaited before the next one starts; a throw ends the audit.          *)
(***************************************************************************)
SimResult(key) == [seal |-> key]

runAudit(r, uid, key) ==
    /\ pc[r] = "idle"
    /\ \A q \in Reqs : q < r => pc[q] = "done" /\ outcome[q] # "QUOTA_EXHAUSTED"
    /\ req' = [req EXCEPT ![r] = [uid |-> uid, key |-> key]]
    /\ pc' = [pc EXCEPT ![r] = "sim_log"]
    /\ seqAfter' = [seqAfter EXCEPT ![r] = Answered]
    /\ UNCHANGED << users, logs, userVer, now, mockResult, txQuota, txVer,
                    attempts, outcome, response, effects, initQuota,
                    authz, nonGatewayVars >>

\* simulateExecuteLogic, 1. IDEMPOTENCY CHECK
SimIdempotencyCheck(r) ==
    /\ pc[r] = "sim_log"
    /\ LET key == req[r].key IN
         IF logs[key] # NoLog
         THEN /\ response' = [response EXCEPT ![r] = logs[key].result]
              /\ outcome' = [outcome EXCEPT ![r] = "REPLAY"]
              /\ pc' = [pc EXCEPT ![r] = "done"]
         ELSE /\ pc' = [pc EXCEPT ![r] = "sim_user"]
              /\ UNCHANGED << response, outcome >>
    /\ UNCHANGED << users, logs, userVer, now, req, mockResult, txQuota, txVer,
                    attempts, effects, initQuota, seqAfter,
                    authz, nonGatewayVars >>

\* MockTx.update: simulates increment(-1) on the shared state
MockTxUpdate(u, uid) ==
    [u EXCEPT ![uid].quota_remaining = @ - 1]

\* variant: set() records the call but stores nothing
MockTxSet_NoStore(l, key, result) == l

\* MockTx.set: stores the log under the key
MockTxSet(l, key, result) ==
    [l EXCEPT ![key] = [result |-> result]]

\* simulateExecuteLogic, 2. QUOTA CHECK, 3. EXECUTION, 4. COMMIT
SimQuotaCheckCommit(r) ==
    /\ pc[r] = "sim_user"
    /\ LET uid == req[r].uid
           key == req[r].key IN
         IF users[uid].quota_remaining <= 0
         THEN /\ outcome' = [outcome EXCEPT ![r] = "QUOTA_EXHAUSTED"]
              /\ UNCHANGED << users, logs, effects, response >>
         ELSE /\ effects' = [effects EXCEPT ![key] = @ + 1]
              /\ users' = MockTxUpdate(users, uid)
              /\ logs' = MockTxSet(logs, key, SimResult(key))
              /\ outcome' = [outcome EXCEPT ![r] = "EXECUTED"]
              /\ response' = [response EXCEPT ![r] = SimResult(key)]
    /\ pc' = [pc EXCEPT ![r] = "done"]
    /\ UNCHANGED << userVer, now, req, mockResult, txQuota, txVer, attempts,
                    initQuota, seqAfter,
                    authz, nonGatewayVars >>

NextSim ==
    \/ \E r \in Reqs, uid \in Principals, key \in Keys : runAudit(r, uid, key)
    \/ \E r \in Reqs : SimIdempotencyCheck(r)
    \/ \E r \in Reqs : SimQuotaCheckCommit(r)

SpecSim == Init /\ [][NextSim]_vars


(***************************************************************************)
(* The decision cycle (bridge POST /chat over the control loop).           *)
(* trace lists the stages the running cycle has gone through.              *)
(***************************************************************************)

\* 1) Input (The): the cycle receives the pressure Delta
Observe(d) ==
    /\ cstage = "idle"
    /\ cycles < MaxCycles
    /\ delta' = d
    /\ cstage' = "observed"
    /\ Q_next' = NoCode
    /\ policy_context' = {}
    /\ policy_decision' = NoDecision
    /\ command' = NoCommand
    /\ executed' = FALSE
    /\ recorded' = FALSE
    /\ sinkFailed' = FALSE
    /\ stop_reason' = "NONE"
    /\ trace' = << "Observe" >>
    /\ UNCHANGED << Q_now, EXISTENCE_STATE_MAP, snapshot, ledger, cycles,
                    nonCycleVars >>

\* bit i of a code
Bit(x, i) == (x \div (2^i)) % 2

\* variant: the transition adds the codes instead of XOR-ing them
XOR_AsSum(a, b) == (a + b) % (2^Bits)

\* Q_now (+) Delta, bit by bit over the 6-bit width
XOR(a, b) ==
    LET F[i \in 0..Bits] ==
            IF i = Bits THEN 0
            ELSE ((Bit(a, i) + Bit(b, i)) % 2) * (2^i) + F[i + 1]
    IN F[0]

\* 2) Projection: Q_next = Q_now (+) Delta
Project ==
    /\ cstage = "observed"
    /\ Q_next' = XOR(Q_now, delta)
    /\ cstage' = "projected"
    /\ trace' = Append(trace, "Project")
    /\ UNCHANGED << Q_now, delta, EXISTENCE_STATE_MAP, policy_context,
                    policy_decision, command, executed, recorded, sinkFailed,
                    stop_reason, snapshot, ledger, cycles, nonCycleVars >>

\* variant: the filter also admits TU
Survivable_AdmitsTU(v) == v \in {"SINH", "TRI", "TU"}

\* the verdicts that may proceed past the existence filter
Survivable(v) == v \in {"SINH", "TRI"}

\* 3) Existence filter and 4) decision: the verdict of Q_next is looked up
\* in the table; a terminal verdict stops the cycle, no command is built.
\* An entry of the table is fixed the first time it is read.
ExistenceFilter(v) ==
    /\ cstage = "projected"
    /\ EXISTENCE_STATE_MAP[Q_next] \in {"unread", v}
    /\ EXISTENCE_STATE_MAP' = [EXISTENCE_STATE_MAP EXCEPT ![Q_next] = v]
    /\ IF Survivable(v)
       THEN /\ cstage' = "filtered"
            /\ UNCHANGED stop_reason
       ELSE /\ cstage' = "stopped"
            /\ stop_reason' = "ontological_violation"
    /\ trace' = Append(trace, "ExistenceFilter")
    /\ UNCHANGED << Q_now, delta, Q_next, policy_context, policy_decision,
                    command, executed, recorded, sinkFailed, snapshot, ledger,
                    cycles, nonCycleVars >>

\* variant: the last denying rule of the order gives the reason
FirstDeny_LastWins(denying) ==
    LET F[i \in 0..Len(Rules)] ==
            IF i = 0 THEN "NONE"
            ELSE IF Rules[i] \in denying THEN Rules[i]
            ELSE F[i - 1]
    IN F[Len(Rules)]

\* the first rule, in the fixed order, that denies
FirstDeny(denying) ==
    LET F[i \in 1..(Len(Rules) + 1)] ==
            IF i > Len(Rules) THEN "NONE"
            ELSE IF Rules[i] \in denying THEN Rules[i]
            ELSE F[i + 1]
    IN F[1]

evaluate(denying) ==
    IF FirstDeny(denying) = "NONE"
    THEN [verdict |-> "Allow", reason |-> "NONE"]
    ELSE [verdict |-> "Deny", reason |-> FirstDeny(denying)]

\* variant: a Deny is reported but the cycle goes on to the sealer
PolicyEvaluate_DenyProceeds(denying) ==
    /\ cstage = "filtered"
    /\ policy_context' = denying
    /\ policy_decision' = evaluate(denying)
    /\ cstage' = "evaluated"
    /\ stop_reason' = IF evaluate(denying).verdict = "Allow"
                      THEN stop_reason ELSE "policy_denied"
    /\ trace' = Append(trace, "PolicyEvaluate")
    /\ UNCHANGED << Q_now, delta, Q_next, EXISTENCE_STATE_MAP, command, executed,
                    recorded, sinkFailed, snapshot, ledger, cycles,
                    nonCycleVars >>

\* Policy evaluator: the context gathered for the cycle is the set of rules
\* that deny; a Deny is terminal for the cycle
PolicyEvaluate(denying) ==
    /\ cstage = "filtered"
    /\ policy_context' = denying
    /\ policy_decision' = evaluate(denying)
    /\ IF evaluate(denying).verdict = "Allow"
       THEN /\ cstage' = "evaluated"
            /\ UNCHANGED stop_reason
       ELSE /\ cstage' = "stopped"
            /\ stop_reason' = "policy_denied"
    /\ trace' = Append(trace, "PolicyEvaluate")
    /\ UNCHANGED << Q_now, delta, Q_next, EXISTENCE_STATE_MAP, command, executed,
                    recorded, sinkFailed, snapshot, ledger, cycles,
                    nonCycleVars >>

\* a collision-free hash: the digest stands for exactly the content hashed
NoHash == << >>
H(content) == << "H", content >>

\* variant: the content hash also covers the number of cycles served so far
Chung_CountsCycles(intent, state_hash, policy) ==
    H(<< intent, state_hash, policy, cycles >>)

\* the deterministic content hash of a command envelope
Chung(intent, state_hash, policy) == H(<< intent, state_hash, policy >>)

\* the sealed command envelope
Envelope(intent, state_hash, policy) ==
    [command_type |-> "CLI", intent |-> intent, state_hash |-> state_hash,
     policy_context |-> policy, Chung |-> Chung(intent, state_hash, policy)]

\* Command sealer (An): only reachable when the policy verdict is Allow
seal ==
    /\ cstage = "evaluated"
    /\ command' = Envelope(delta, Q_now, policy_decision)
    /\ cstage' = "sealed"
    /\ trace' = Append(trace, "seal")
    /\ UNCHANGED << Q_now, delta, Q_next, EXISTENCE_STATE_MAP, policy_context,
                    policy_decision, executed, recorded, sinkFailed, stop_reason,
                    snapshot, ledger, cycles, nonCycleVars >>

\* variant: the executor also accepts a command that has not been sealed
execute_Unsealed ==
    /\ cstage \in {"evaluated", "sealed"}
    /\ executed' = TRUE
    /\ cstage' = "executed"
    /\ trace' = Append(trace, "execute")
    /\ UNCHANGED << Q_now, delta, Q_next, EXISTENCE_STATE_MAP, policy_context,
                    policy_decision, command, recorded, sinkFailed, stop_reason,
                    snapshot, ledger, cycles, nonCycleVars >>

\* Executor (Hoa): performs the sealed command
execute ==
    /\ cstage = "sealed"
    /\ executed' = TRUE
    /\ cstage' = "executed"
    /\ trace' = Append(trace, "execute")
    /\ UNCHANGED << Q_now, delta, Q_next, EXISTENCE_STATE_MAP, policy_context,
                    policy_decision, command, recorded, sinkFailed, stop_reason,
                    snapshot, ledger, cycles, nonCycleVars >>

\* the fields of the cycle's audit record
AuditRecord ==
    [state_before |-> Q_now, intent |-> delta, command |-> command,
     policy_decision |-> policy_decision,
     state_after |-> IF executed THEN Q_next ELSE Q_now,
     determinism_hash |-> IF command = NoCommand THEN NoHash ELSE command.Chung,
     stop_reason |-> stop_reason]

\* the fields of a stored record, without its chain hash
Fields(rec) == [f \in (DOMAIN rec) \ {"hash"} |-> rec[f]]

\* variant: the stored hash covers the record's fields only
ChainHash_Unchained(fields, prev) == H(<< fields, NoHash >>)

\* stored hash = H(record_fields ++ previous_record_hash)
ChainHash(fields, prev) == H(<< fields, prev >>)

\* the stored hash of the last record of a chain
PrevHash(l, i) == IF i = 1 THEN NoHash ELSE l[i - 1].hash

Stored(fields, prev) == [hash |-> ChainHash(fields, prev)] @@ fields

\* variant: a failed write is tried again within the cycle
append_Retry(ok) ==
    /\ cstage \in {"executed", "stopped"}
    /\ recorded' = ok
    /\ sinkFailed' = ~ok
    /\ ledger' = IF ok
                 THEN Append(ledger, Stored(AuditRecord,
                                            PrevHash(ledger, Len(ledger) + 1)))
                 ELSE ledger
    /\ cstage' = IF ok THEN "appended"
                 ELSE IF sinkFailed THEN "appended" ELSE cstage
    /\ trace' = Append(trace, "append")
    /\ UNCHANGED << Q_now, delta, Q_next, EXISTENCE_STATE_MAP, policy_context,
                    policy_decision, command, executed, stop_reason, snapshot,
                    cycles, nonCycleVars >>

\* Audit ledger (Chung): append of the cycle's record, chained to the last
\* stored hash; the sink may reject the write
append(ok) ==
    /\ cstage \in {"executed", "stopped"}
    /\ recorded' = ok
    /\ sinkFailed' = ~ok
    /\ ledger' = IF ok
                 THEN Append(ledger, Stored(AuditRecord,
                                            PrevHash(ledger, Len(ledger) + 1)))
                 ELSE ledger
    /\ cstage' = "appended"
    /\ trace' = Append(trace, "append")
    /\ UNCHANGED << Q_now, delta, Q_next, EXISTENCE_STATE_MAP, policy_context,
                    policy_decision, command, executed, stop_reason, snapshot,
                    cycles, nonCycleVars >>

\* variant: the snapshot reports the executor's flag as it is
Snapshot_ReportsExecution(cmd, exec, rec, stop) ==
    [decision |-> [verdict |-> IF stop = "NONE" /\ rec THEN "ALLOW" ELSE "STOP",
                   command |-> cmd],
     execution |-> [executed |-> exec,
                    executor |-> IF exec THEN "SHELL" ELSE "NONE"],
     stop |-> [reason |-> IF rec THEN stop ELSE "audit_write_failed"],
     audit |-> [recorded |-> rec]]

\* the structured snapshot the bridge returns
Snapshot(cmd, exec, rec, stop) ==
    [decision |-> [verdict |-> IF stop = "NONE" /\ rec THEN "ALLOW" ELSE "STOP",
                   command |-> cmd],
     execution |-> [executed |-> exec /\ rec,
                    executor |-> IF exec /\ rec THEN "SHELL" ELSE "NONE"],
     stop |-> [reason |-> IF rec THEN stop ELSE "audit_write_failed"],
     audit |-> [recorded |-> rec]]

\* Response (Lap | Diet): the snapshot is returned; a recorded execution
\* becomes the current state
Respond ==
    /\ cstage = "appended"
    /\ snapshot' = Snapshot(command, executed, recorded, stop_reason)
    /\ Q_now' = IF executed /\ recorded THEN Q_next ELSE Q_now
    /\ cycles' = cycles + 1
    /\ cstage' = "idle"
    /\ trace' = Append(trace, "Respond")
    /\ UNCHANGED << delta, Q_next, EXISTENCE_STATE_MAP, policy_context,
                    policy_decision, command, executed, recorded, sinkFailed,
                    stop_reason, ledger, nonCycleVars >>

RuleSet == {Rules[i] : i \in 1..Len(Rules)}

\* policy contexts met by the running cycles: no rule denies, one denies,
\* two deny (the first and the last of the order, or the last two)
ContextSamples ==
    { {}, {"rate_limit"}, {"surface_allowlist", "time_guard"},
      {"rate_limit", "time_guard"} }

\* the steps of a cycle that has started
CycleStep ==
    \/ Project
    \/ \E v \in ExistenceState : ExistenceFilter(v)
    \/ \E denying \in ContextSamples : PolicyEvaluate(denying)
    \/ seal
    \/ execute
    \/ \E ok \in BOOLEAN : append(ok)
    \/ Respond

NextCycle ==
    \/ \E d \in DeltaSamples : Observe(d)
    \/ CycleStep

\* the gateway at rest while decision cycles run
GatewayAtRest == InitGateway /\ initQuota = [p \in Principals |-> MaxQuota]

InitAtRest == GatewayAtRest /\ InitCycle /\ InitReplay /\ InitTool /\ InitFix

SpecCycle == InitAtRest /\ [][NextCycle]_vars

\* a started cycle runs to its response: its stages are sequential code
SpecCycleFair == SpecCycle /\ WF_vars(CycleStep)


(***************************************************************************)
(* The stored ledger, its verification and the replay engine.  An edit of  *)
(* the store changes one record after it was written; the replay engine    *)
(* re-derives each record of the ledger from its state_before and intent   *)
(* and halts at the first record that does not match.                      *)
(***************************************************************************)
Edits == {"bitflip", "bitflip_rehash", "rewrite"}

\* the record rebuilt for another intent: every derived field recomputed
Rebuilt(rec, intent) ==
    [state_before |-> rec.state_before,
     intent |-> intent,
     command |-> IF rec.command = NoCommand THEN NoCommand
                 ELSE Envelope(intent, rec.state_before, rec.policy_decision),
     policy_decision |-> rec.policy_decision,
     state_after |-> IF rec.stop_reason = "NONE"
                     THEN XOR(rec.state_before, intent) ELSE rec.state_before,
     determinism_hash |-> IF rec.command = NoCommand THEN NoHash
                          ELSE Chung(intent, rec.state_before, rec.policy_decision),
     stop_reason |-> rec.stop_reason]

\* the record as the edit leaves it
Edited(l, i, e) ==
    LET rec == l[i]
        flipped == [Fields(rec) EXCEPT !.state_before = XOR(@, 1)]
    IN  CASE e = "bitflip" -> [hash |-> rec.hash] @@ flipped
          [] e = "bitflip_rehash" -> Stored(flipped, PrevHash(l, i))
          [] e = "rewrite" ->
                 Stored(Rebuilt(rec, XOR(rec.intent, 1)), PrevHash(l, i))

\* one stored record is edited, once, between cycles
Tamper(i, e) ==
    /\ cstage = "idle"
    /\ rstate = "off"
    /\ tampered = 0
    /\ i \in 1..Len(ledger)
    /\ ledger' = [ledger EXCEPT ![i] = Edited(ledger, i, e)]
    /\ tampered' = i
    /\ editedLast' = (i = Len(ledger))
    /\ UNCHANGED << cstage, Q_now, delta, Q_next, EXISTENCE_STATE_MAP,
                    policy_context, policy_decision, command, executed, recorded,
                    sinkFailed, stop_reason, trace, snapshot, cycles,
                    rstate, rpos, divergence_point, replayed, gatewayVars,
                    toolVars, fixVars >>

\* chain verification: the first record whose stored hash is not the hash of
\* its fields and its predecessor's stored hash, 0 when there is none
VerifyChain(l) ==
    LET bad == {i \in 1..Len(l) :
                   l[i].hash # ChainHash(Fields(l[i]), PrevHash(l, i))}
    IN  IF bad = {} THEN 0 ELSE CHOOSE i \in bad : \A j \in bad : i <= j

\* replay starts on the ledger as stored
StartReplay ==
    /\ cstage = "idle"
    /\ rstate = "off"
    /\ Len(ledger) > 0
    /\ rstate' = "running"
    /\ UNCHANGED << tampered, editedLast, rpos, divergence_point, replayed,
                    cycleVars, gatewayVars, toolVars, fixVars >>

\* what the replay derives from a record's state_before and intent, given
\* the verdict v of the lookup table for the projected code
Derived(rec, v) ==
    LET stop == IF ~Survivable(v) THEN "ontological_violation"
                ELSE IF rec.policy_decision.verdict = "Deny" THEN "policy_denied"
                ELSE "NONE"
    IN  [state_before |-> rec.state_before,
         intent |-> rec.intent,
         command |-> IF stop = "NONE"
                     THEN Envelope(rec.intent, rec.state_before, rec.policy_decision)
                     ELSE NoCommand,
         policy_decision |-> IF Survivable(v) THEN rec.policy_decision
                             ELSE NoDecision,
         state_after |-> IF stop = "NONE"
                         THEN XOR(rec.state_before, rec.intent)
                         ELSE rec.state_before,
         determinism_hash |-> IF stop = "NONE"
                              THEN Chung(rec.intent, rec.state_before,
                                         rec.policy_decision)
                              ELSE NoHash,
         stop_reason |-> stop]

\* the record agrees with what is derived from it and with the chain
Matches(l, i, v) ==
    /\ l[i].policy_decision.verdict # "NONE" \/ ~Survivable(v)
    /\ Fields(l[i]) = Derived(l[i], v)
    /\ l[i].hash = ChainHash(Fields(l[i]), PrevHash(l, i))

\* variant: a mismatch is noted and the replay goes on
ReplayRecord_BestEffort(v) ==
    /\ rstate = "running"
    /\ LET i == rpos + 1
           code == XOR(ledger[i].state_before, ledger[i].intent) IN
         /\ EXISTENCE_STATE_MAP[code] \in {"unread", v}
         /\ EXISTENCE_STATE_MAP' = [EXISTENCE_STATE_MAP EXCEPT ![code] = v]
         /\ rpos' = i
         /\ replayed' = Append(replayed,
                               [verdict |-> v,
                                stop_reason |-> Derived(ledger[i], v).stop_reason])
         /\ divergence_point' = IF Matches(ledger, i, v) \/ divergence_point # 0
                                THEN divergence_point ELSE i
         /\ rstate' = IF i < Len(ledger) THEN "running"
                      ELSE IF divergence_point' = 0 THEN "matched" ELSE "halted"
    /\ UNCHANGED << cstage, Q_now, delta, Q_next, policy_context, policy_decision,
                    command, executed, recorded, sinkFailed, stop_reason, trace,
                    snapshot, ledger, cycles, tampered, editedLast,
                    gatewayVars, toolVars, fixVars >>

\* replay of the next record: project, classify, derive and compare; a
\* mismatch halts the replay at this record
ReplayRecord(v) ==
    /\ rstate = "running"
    /\ LET i == rpos + 1
           code == XOR(ledger[i].state_before, ledger[i].intent) IN
         /\ EXISTENCE_STATE_MAP[code] \in {"unread", v}
         /\ EXISTENCE_STATE_MAP' = [EXISTENCE_STATE_MAP EXCEPT ![code] = v]
         /\ IF Matches(ledger, i, v)
            THEN /\ rpos' = i
                 /\ replayed' = Append(replayed,
                                       [verdict |-> v,
                                        stop_reason |->
                                            Derived(ledger[i], v).stop_reason])
                 /\ rstate' = IF i = Len(ledger) THEN "matched" ELSE "running"
                 /\ UNCHANGED divergence_point
            ELSE /\ rstate' = "halted"
                 /\ divergence_point' = i
                 /\ UNCHANGED << rpos, replayed >>
    /\ UNCHANGED << cstage, Q_now, delta, Q_next, policy_context, policy_decision,
                    command, executed, recorded, sinkFailed, stop_reason, trace,
                    snapshot, ledger, cycles, tampered, editedLast,
                    gatewayVars, toolVars, fixVars >>

\* cycles run until a replay is started
ForwardPath == rstate = "off" /\ NextCycle

NextReplay ==
    \/ ForwardPath
    \/ \E i \in 1..MaxCycles, e \in Edits : Tamper(i, e)
    \/ StartReplay
    \/ \E v \in ExistenceState : ReplayRecord(v)

SpecReplay == InitAtRest /\ [][NextReplay]_vars

(***************************************************************************)
(* The transition operator alone, over every pair (Q_now, Delta) and from  *)
(* any number of earlier cycles.                                           *)
(***************************************************************************)
InitProject ==
    /\ GatewayAtRest
    /\ InitReplay
    /\ InitTool
    /\ InitFix
    /\ cstage = "observed"
    /\ Q_now \in Codes
    /\ delta \in Codes
    /\ Q_next = NoCode
    /\ EXISTENCE_STATE_MAP = [c \in Codes |-> "unread"]
    /\ policy_context = {}
    /\ policy_decision = NoDecision
    /\ command = NoCommand
    /\ executed = FALSE
    /\ recorded = FALSE
    /\ sinkFailed = FALSE
    /\ stop_reason = "NONE"
    /\ trace = << "Observe" >>
    /\ snapshot = NoSnapshot
    /\ ledger = << >>
    /\ cycles \in 0..MaxCycles

SpecProject == InitProject /\ [][Project]_vars

(***************************************************************************)
(* The policy evaluator alone, over every set of denying rules, for a      *)
(* cycle that has passed the existence filter.                             *)
(***************************************************************************)
InitPolicy ==
    /\ GatewayAtRest
    /\ InitReplay
    /\ InitTool
    /\ InitFix
    /\ cstage = "filtered"
    /\ Q_now \in Codes
    /\ delta \in DeltaSamples
    /\ Q_next = XOR(Q_now, delta)
    /\ \E v \in {"SINH", "TRI"} :
           EXISTENCE_STATE_MAP =
               [c \in Codes |-> IF c = Q_next THEN v ELSE "unread"]
    /\ policy_context = {}
    /\ policy_decision = NoDecision
    /\ command = NoCommand
    /\ executed = FALSE
    /\ recorded = FALSE
    /\ sinkFailed = FALSE
    /\ stop_reason = "NONE"
    /\ trace = << "Observe", "Project", "ExistenceFilter" >>
    /\ snapshot = NoSnapshot
    /\ ledger = << >>
    /\ cycles = 0

NextPolicy == \E denying \in SUBSET RuleSet : PolicyEvaluate(denying)

SpecPolicy == InitPolicy /\ [][NextPolicy]_vars



(***************************************************************************)
(* run_javascript: the implementation writes the script to                 *)
(* temp_script_<Date.now()>.ts, spawns deno on it with a timeout, waits    *)
(* for the process to close, removes the file and returns the output; a    *)
(* non-zero exit, a kill or a spawn error rejects and the call throws.     *)
(***************************************************************************)
\* the call: the file name is stamped with the clock and writeFile is issued
run_javascript(i, javascript, timeout_seconds) ==
    /\ inv[i].st = "idle"
    /\ (IF i = 1 THEN TRUE ELSE inv[i - 1].st # "idle")
    /\ inv' = [inv EXCEPT ![i] =
                  [@ EXCEPT !.st = "writing",
                            !.javascript = javascript,
                            !.timeout_seconds = timeout_seconds,
                            !.scriptFileName = now]]
    /\ UNCHANGED << cwd, gatewayVars, cycleVars, replayVars, fixVars >>

\* await writeFile(scriptFilePath, javascript)
writeFile(i) ==
    /\ inv[i].st = "writing"
    /\ cwd' = [cwd EXCEPT ![inv[i].scriptFileName] = inv[i].javascript]
    /\ inv' = [inv EXCEPT ![i].st = "written"]
    /\ UNCHANGED << gatewayVars, cycleVars, replayVars, fixVars >>

\* timeout: (timeout_seconds ?? 5) * 1000
SpawnTimeout(timeout_seconds) ==
    (IF timeout_seconds = Undefined THEN DefaultTimeoutSeconds
     ELSE timeout_seconds[1]) * MsPerSecond

\* spawn(deno, [..., scriptFilePath], {timeout, ...})
spawn(i) ==
    /\ inv[i].st = "written"
    /\ inv' = [inv EXCEPT ![i] =
                  [@ EXCEPT !.st = "running",
                            !.timeout = SpawnTimeout(inv[i].timeout_seconds)]]
    /\ UNCHANGED << cwd, gatewayVars, cycleVars, replayVars, fixVars >>

\* the child process reads the script file it was given and runs it
deno(i) ==
    /\ inv[i].st = "running"
    /\ inv[i].ran = NoFile
    /\ cwd[inv[i].scriptFileName] # NoFile
    /\ inv' = [inv EXCEPT ![i].ran = cwd[inv[i].scriptFileName]]
    /\ UNCHANGED << cwd, gatewayVars, cycleVars, replayVars, fixVars >>

\* the 'close' event (exit code 0, non-zero, or null after the timeout kill)
\* or the 'error' event: code 0 resolves, anything else rejects
close(i, code) ==
    /\ inv[i].st = "running"
    /\ (IF code = "0" THEN inv[i].ran # NoFile ELSE TRUE)
    /\ inv' = [inv EXCEPT ![i] =
                  [@ EXCEPT !.st = IF code = "0" THEN "removing" ELSE "threw",
                            !.code = code]]
    /\ UNCHANGED << cwd, gatewayVars, cycleVars, replayVars, fixVars >>

\* await rm(scriptFilePath), then return {stdout, stderr}; rm of a file that
\* is not there rejects
rm(i) ==
    /\ inv[i].st = "removing"
    /\ IF cwd[inv[i].scriptFileName] # NoFile
       THEN /\ cwd' = [cwd EXCEPT ![inv[i].scriptFileName] = NoFile]
            /\ inv' = [inv EXCEPT ![i].st = "returned"]
       ELSE /\ inv' = [inv EXCEPT ![i].st = "threw"]
            /\ UNCHANGED cwd
    /\ UNCHANGED << gatewayVars, cycleVars, replayVars, fixVars >>

ExitCodes == {"0", "1", "null", "error"}

NextTool ==
    \/ \E i \in Invs, js \in Scripts, ts \in TimeoutArgs : run_javascript(i, js, ts)
    \/ \E i \in Invs : writeFile(i)
    \/ \E i \in Invs : spawn(i)
    \/ \E i \in Invs : deno(i)
    \/ \E i \in Invs, code \in ExitCodes : close(i, code)
    \/ \E i \in Invs : rm(i)
    \/ Tick

SpecTool == InitAtRest /\ [][NextTool]_vars

(***************************************************************************)
(* Properties of the execution gateway                                     *)
(***************************************************************************)
AllAnswered == \A r \in Reqs : pc[r] = "done"

\* every request of the behaviour is the duplicate (p, k), and p's quota
\* is large enough for the billing middleware to admit each of them
DuplicatesOf(p, k) ==
    /\ AllAnswered
    /\ \A r \in Reqs : req[r] = [uid |-> p, key |-> k]
    /\ initQuota[p] >= Cardinality(Reqs)

RecordsChargedTo(p) ==
    {k \in Keys : logs[k] # NoLog /\ logs[k].user_id = p}

QuotaErrors == {"E429", "E500_quota"}

\* C1: when N >= 2 requests with the same idempotency_key of one principal
\* have all been answered, whatever their interleaving, the principal's
\* quota_remaining is exactly one below its initial value.
C1_QuotaOneBelowInitial ==
    \A p \in Principals, k \in Keys :
        DuplicatesOf(p, k) => users[p].quota_remaining = initQuota[p] - 1

\* C2: of the duplicate requests for one idempotency_key exactly one invokes
\* the effect and commits (Executed); every other one returns Replayed and
\* the effect is performed once for the key.
C2_ExactlyOneExecutes ==
    \A p \in Principals, k \in Keys :
        DuplicatesOf(p, k) =>
            /\ Cardinality({r \in Reqs : outcome[r] = "Executed"}) = 1
            /\ \A r \in Reqs : outcome[r] \in {"Executed", "Replayed"}
            /\ effects[k] = 1

\* C3: every caller that was answered with a result for an idempotency_key
\* received the value stored in the completed-execution record of that key.
C3_CallersReceiveStoredEffect ==
    \A r \in Reqs :
        outcome[r] \in {"Executed", "Replayed"} =>
            response[r] = logs[req[r].key].result

\* C5: in every reachable state the number of completed-execution records
\* charged to a principal equals its initial quota minus its remaining quota.
C5_RecordsMatchQuotaSpent ==
    \A p \in Principals :
        Cardinality(RecordsChargedTo(p)) = initQuota[p] - users[p].quota_remaining

\* C6: a request submitted after a request of the same principal with the
\* same idempotency_key was answered Executed (so the record exists) is
\* answered Replayed with the stored effect, whatever the principal's
\* remaining quota is.
C6_ReplayWhateverQuota ==
    \A r \in Reqs :
        (/\ pc[r] = "done"
         /\ \E r1 \in seqAfter[r] :
                req[r1] = req[r] /\ outcome[r1] = "Executed")
        => (outcome[r] = "Replayed" /\ response[r] = logs[req[r].key].result)

\* C7: a step in which a request with a new idempotency_key has the
\* principal's quota checked while it is <= 0 ends the request with a
\* quota-exhausted error and changes neither the users nor the logs.
C7_QuotaExhaustedNoChange ==
    [][\A r \in Reqs :
          (/\ pc[r] \in {"billing", "tx"}
           /\ pc'[r] \notin {pc[r], "crashed"}
           /\ logs[req[r].key] = NoLog
           /\ users[req[r].uid].quota_remaining <= 0)
          => (/\ pc'[r] = "done"
              /\ outcome'[r] \in QuotaErrors
              /\ users' = users
              /\ logs' = logs)]_vars

\* C7 witness: a request passed the billing middleware, lost the last unit
\* of quota to a concurrent request and was refused inside the transaction.
C7_Witness ==
    \E r \in Reqs :
        /\ outcome[r] = "E500_quota"
        /\ logs[req[r].key] = NoLog
        /\ users[req[r].uid].quota_remaining = 0

(***************************************************************************)
(* Properties of the RIL logic audit                                       *)
(***************************************************************************)
FollowsExecuted(r) ==
    \E r1 \in seqAfter[r] :
        /\ req[r1] = req[r]
        /\ outcome[r1] = "EXECUTED"

Answering == cstage = "idle" /\ cycles > 0

\* C8: when the audit append of a cycle failed, the returned snapshot has
\* audit.recorded = false, stop.reason = audit_write_failed and
\* execution.executed = false; and in every response execution.executed
\* implies audit.recorded, which implies a record in the ledger.
C8_AuditFailureReported ==
    /\ (Answering /\ sinkFailed) =>
           /\ snapshot.audit.recorded = FALSE
           /\ snapshot.stop.reason = "audit_write_failed"
           /\ snapshot.execution.executed = FALSE
    /\ snapshot # NoSnapshot =>
           (snapshot.execution.executed => snapshot.audit.recorded)
    /\ (Answering /\ snapshot.audit.recorded) =>
           (~sinkFailed /\ Len(ledger) > 0)

\* C8 witness: the executor performed the command, the sink rejected the
\* audit write, and the cycle has been answered.
C8_Witness ==
    /\ Answering
    /\ sinkFailed
    /\ executed
    /\ snapshot.execution.executed = FALSE

\* C9: the cycle is past the existence filter (policy, seal, execute), has a
\* command or an execution, only if the verdict of Q_next is SINH or TRI;
\* with a verdict TU or DIET it stops with ontological_violation, builds no
\* command and executes nothing, and the recorded answer says so.
C9_TerminalVerdictStops ==
    /\ (cstage \in {"filtered", "evaluated", "sealed", "executed"}
            \/ command # NoCommand \/ executed)
           => (Q_next \in Codes /\ EXISTENCE_STATE_MAP[Q_next] \in {"SINH", "TRI"})
    /\ (Q_next \in Codes /\ EXISTENCE_STATE_MAP[Q_next] \in {"TU", "DIET"}
            /\ cstage \in {"stopped", "appended", "idle"})
           => /\ stop_reason = "ontological_violation"
              /\ command = NoCommand
              /\ ~executed
              /\ (Answering /\ recorded) =>
                     /\ snapshot.stop.reason = "ontological_violation"
                     /\ snapshot.decision.command = NoCommand
                     /\ snapshot.execution.executed = FALSE

\* C9 witness: a cycle whose projected state has a terminal verdict has been
\* answered with stop.reason = ontological_violation.
C9_Witness ==
    /\ Answering
    /\ Q_next \in Codes
    /\ EXISTENCE_STATE_MAP[Q_next] \in {"TU", "DIET"}
    /\ snapshot.stop.reason = "ontological_violation"

\* C10: for every pair (Q_now, Delta) of 6-bit codes the projected Q_next is
\* a code of the 64-code space and is, bit for bit, Q_now XOR Delta,
\* whatever else the state holds.
C10_TransitionIsXor ==
    cstage = "projected" =>
        /\ Q_next \in Codes
        /\ \A i \in 0..(Bits - 1) :
               Bit(Q_next, i) = (IF Bit(Q_now, i) = Bit(delta, i) THEN 0 ELSE 1)

\* C10 witness: a projection in which both operands have bits in common.
C10_Witness ==
    /\ cstage = "projected"
    /\ Q_now = 63
    /\ delta = 21
    /\ Q_next = 42

\* C11: the policy decision is Allow exactly when no rule of the gathered
\* context denies; otherwise it is Deny and its reason is the first denying
\* rule in the order surface allowlist, app/process boundary, rate limit,
\* time guard, whatever later rules also deny.
C11_FirstDenyingRuleWins ==
    LET order == << "surface_allowlist", "app_boundary", "rate_limit", "time_guard" >>
    IN  policy_decision # NoDecision =>
            IF policy_context = {}
            THEN policy_decision = [verdict |-> "Allow", reason |-> "NONE"]
            ELSE /\ policy_decision.verdict = "Deny"
                 /\ \E i \in 1..4 :
                        /\ order[i] \in policy_context
                        /\ policy_decision.reason = order[i]
                        /\ \A j \in 1..(i - 1) : order[j] \notin policy_context

\* C11 witness: the rate limit and the time guard both deny, and the cycle
\* stopped with the rate limit as the reason.
C11_Witness ==
    /\ cstage = "stopped"
    /\ policy_context = {"rate_limit", "time_guard"}
    /\ policy_decision = [verdict |-> "Deny", reason |-> "rate_limit"]

NoRepeat(t) == \A i, j \in 1..Len(t) : i < j => t[i] # t[j]

\* the answer of a cycle is one terminal verdict, whole
OneVerdict(snap) ==
    /\ snap.decision.verdict \in {"ALLOW", "STOP"}
    /\ snap.decision.verdict = "ALLOW" =>
           /\ snap.stop.reason = "NONE"
           /\ snap.execution.executed
           /\ snap.audit.recorded
    /\ snap.decision.verdict = "STOP" =>
           /\ snap.stop.reason # "NONE"
           /\ ~snap.execution.executed

Pos(name) ==
    IF \E i \in 1..Len(trace) : trace[i] = name
    THEN CHOOSE i \in 1..Len(trace) : trace[i] = name
    ELSE 0

\* The -> Chinh (projection, existence filter, policy) -> An -> Hoa -> Chung
\* -> Lap, as stages of the cycle
Canon ==
    << "Observe", "Project", "ExistenceFilter", "PolicyEvaluate", "seal",
       "execute", "append", "Respond" >>

CanonIndex(name) == CHOOSE i \in 1..Len(Canon) : Canon[i] = name

HashOver(l, i) == l[i].hash = H(<< Fields(l[i]), PrevHash(l, i) >>)

\* steps other than an edit of the store keep every record already stored
AppendOnly ==
    tampered' = tampered =>
        /\ Len(ledger') >= Len(ledger)
        /\ \A i \in 1..Len(ledger) : ledger'[i] = ledger[i]

ReplayEnded == rstate \in {"matched", "halted"}

\* replay of a ledger nobody edited: never halts, and ends matched with the
\* verdicts and stop reasons of the records
FaithfulReplay ==
    tampered = 0 =>
        /\ rstate # "halted"
        /\ divergence_point = 0
        /\ \A i \in 1..Len(replayed) :
               /\ replayed[i].stop_reason = ledger[i].stop_reason
               /\ (replayed[i].verdict \in {"TU", "DIET"})
                      <=> (ledger[i].stop_reason = "ontological_violation")
        /\ rstate = "matched" =>
               (rpos = Len(ledger) /\ Len(replayed) = Len(ledger))

Disagrees(l, i) ==
    LET code == XOR(l[i].state_before, l[i].intent) IN
        \A v \in ExistenceState :
            EXISTENCE_STATE_MAP[code] \in {"unread", v} => ~Matches(l, i, v)

includes(content, str) == \E i \in 1..Len(content) : content[i] = str

\* count = content.split(beforeStr).length - 1
count(content) == Cardinality({i \in 1..Len(content) : content[i] = beforeStr})

\* content.split(beforeStr).join(afterStr)
RECURSIVE SplitJoin(_)
SplitJoin(content) ==
    IF content = << >> THEN << >>
    ELSE (IF Head(content) = beforeStr THEN afterStr ELSE << Head(content) >>)
         \o SplitJoin(Tail(content))

autoFixLy ==
    /\ runs < MaxRuns
    /\ runs' = runs + 1
    /\ IF ~targetFile.exists
       THEN /\ flowResult' = [success |-> FALSE, message |-> "File not found",
                              replacementsCount |-> 0]
            /\ UNCHANGED targetFile
       ELSE IF includes(targetFile.content, beforeStr)
       THEN /\ targetFile' = [targetFile EXCEPT !.content = SplitJoin(@)]
            /\ flowResult' = [success |-> TRUE, message |-> "Fixed",
                              replacementsCount |-> count(targetFile.content)]
       ELSE /\ flowResult' = [success |-> TRUE,
                              message |-> "Pattern not found or already fixed.",
                              replacementsCount |-> 0]
            /\ UNCHANGED targetFile
    /\ UNCHANGED << gatewayVars, cycleVars, replayVars, toolVars >>

\* the texts of at most MaxLen pieces
Contents == UNION {[1..n -> Pieces] : n \in 0..MaxLen}

InitFixAny ==
    /\ GatewayAtRest
    /\ InitCycle
    /\ InitReplay
    /\ InitTool
    /\ targetFile \in {Absent} \cup {[exists |-> TRUE, content |-> c] : c \in Contents}
    /\ flowResult = NoFlowResult
    /\ runs = 0

SpecFix == InitFixAny /\ [][autoFixLy]_vars

(***************************************************************************)
(* Further properties of the execution gateway                             *)
(***************************************************************************)
Submitted == {r \in Reqs : pc[r] # "idle"}

\* C19: when the requests carry different idempotency keys, whatever their
\* interleaving, no request that invoked the effect (performed the task)
\* is then refused by a quota check.
C19_QuotaCheckedBeforeEffect ==
    (\A r1, r2 \in Submitted : r1 # r2 => req[r1].key # req[r2].key)
    => \A r \in Reqs :
           outcome[r] \in QuotaErrors => mockResult[r] = NoResult

\* C20: authenticateJWT answers 401 to a request without Authorization
\* header or without a token after the scheme and 403 to one whose token
\* fails verification, without calling next() and without a change of the
\* users or the logs; only a request whose token was accepted gets to
\* checkBillingStatus and to the handler body.
C20_HandlerOnlyAfterAuthentication ==
    [][/\ \A r \in Reqs :
              (pc[r] = "auth" /\ pc'[r] \notin {"auth", "crashed"}) =>
                  IF authz[r] = "valid"
                  THEN /\ pc'[r] = "billing"
                       /\ outcome'[r] = "none"
                  ELSE /\ pc'[r] = "done"
                       /\ outcome'[r] = (IF authz[r] = "invalid"
                                         THEN "E403" ELSE "E401")
                       /\ users' = users
                       /\ logs' = logs
                       /\ effects' = effects
       /\ \A r \in Reqs :
              (\/ pc'[r] \in {"billing", "lookup", "tx", "commit"}
               \/ outcome'[r] \notin {"none", "E401", "E403"}
               \/ mockResult'[r] # NoResult)
              => authz'[r] = "valid"
       /\ \A r \in Reqs :
              outcome[r] \in {"E401", "E403"} =>
                  (pc'[r] = "done" /\ outcome'[r] = outcome[r])]_vars

\* C20 witness: one request was answered 401 for a scheme without token,
\* the next one 403 for a token that fails verification; the store is as
\* it was at the start.
C20_Witness ==
    \E r1, r2 \in Reqs :
        /\ authz[r1] = "no_token" /\ outcome[r1] = "E401"
        /\ authz[r2] = "invalid" /\ outcome[r2] = "E403"
        /\ \A p \in Principals : users[p].quota_remaining = initQuota[p]
        /\ \A k \in Keys : logs[k] = NoLog

\* the user of request r is entitled: a uid, a user document, an active
\* subscription and a quota_remaining above 0
Entitled(r) ==
    IF req[r].uid = "none" THEN FALSE
    ELSE LET doc == users[req[r].uid] IN
           /\ doc.exists
           /\ doc.status = "active"
           /\ doc.billing = "present"
           /\ doc.quota_remaining > 0

\* the answer the claim gives to a user who is not entitled
Refusal(r) ==
    IF req[r].uid = "none" THEN "E401"
    ELSE IF ~users[req[r].uid].exists THEN "E402"
    ELSE IF users[req[r].uid].status # "active" THEN "E402"
    ELSE "E429"

\* C21: checkBillingStatus calls next() exactly when the user is entitled
\* (or answers 500 when the read of the user document throws); a user who
\* is not entitled is answered 401, 402 or 429 (500 on a throw) and next()
\* is not called.
C21_NextExactlyWhenEntitled ==
    [][\A r \in Reqs :
          (pc[r] = "billing" /\ pc'[r] # "billing") =>
              LET called == pc'[r] = "lookup" \/ outcome'[r] = "E400" IN
                IF Entitled(r)
                THEN called \/ outcome'[r] = "E500_billing"
                ELSE /\ ~called
                     /\ pc'[r] = "done"
                     /\ outcome'[r] \in {Refusal(r), "E500_billing"}
                     /\ outcome'[r] = "E500_billing" => req[r].uid # "none"]_vars

\* the step commits the transaction of request r
Commits(r) == pc[r] = "commit" /\ outcome'[r] = "Executed"

\* C23: every request that was submitted ends with exactly one response;
\* a transaction that conflicts is run again at most MaxAttempts times in
\* all and then answers an error; a commit writes the quota and the log
\* together, and nothing else writes a log.
C23_EveryRequestAnswersOnce ==
    /\ \A r \in Reqs :
           (pc[r] = "auth") ~> (pc[r] = "done" /\ outcome[r] # "none")
    /\ [](\A r \in Reqs : attempts[r] <= MaxAttempts)
    /\ [][\A r \in Reqs :
             /\ outcome[r] # "none" =>
                    /\ pc[r] = "done"
                    /\ pc'[r] = "done"
                    /\ outcome'[r] = outcome[r]
                    /\ response'[r] = response[r]
             /\ Commits(r) =>
                    /\ users'[req[r].uid].quota_remaining =
                           users[req[r].uid].quota_remaining - 1
                    /\ logs'[req[r].key].request_id = r
             /\ (pc[r] = "commit" /\ pc'[r] # "commit" /\ ~Commits(r)) =>
                    /\ users' = users
                    /\ logs' = logs
             /\ (pc[r] = "commit" /\ outcome'[r] = "E500_tx") =>
                    attempts[r] = MaxAttempts]_vars
    /\ [][logs' # logs => \E r \in Reqs : Commits(r)]_vars

\* C23 witness: a request lost every attempt of its transaction to the
\* commits of others and was answered an error; nothing of it was stored.
C23_Witness ==
    \E r \in Reqs :
        /\ outcome[r] = "E500_tx"
        /\ attempts[r] = MaxAttempts
        /\ users[req[r].uid].quota_remaining = initQuota[req[r].uid] - MaxAttempts
        /\ logs[req[r].key] = NoLog

\* C24: the quota_remaining of a principal is never negative, whatever the
\* interleaving of its requests, with the same key or with different keys.
C24_QuotaNeverNegative ==
    \A p \in Principals : users[p].quota_remaining >= 0

\* C24 witness: two requests of one principal with one unit of quota ran
\* their transactions concurrently; one committed, the other one read the
\* quota again on its retry and was refused; the quota is 0.
C24_Witness ==
    \E r1, r2 \in Reqs :
        /\ outcome[r1] = "Executed"
        /\ outcome[r2] = "E500_quota"
        /\ attempts[r2] = 2
        /\ req[r1].uid = req[r2].uid
        /\ initQuota[req[r1].uid] = 1
        /\ users[req[r1].uid].quota_remaining = 0

\* C25: the execution log of an idempotency_key is written at most once:
\* once it exists, the log and its stored result stay the same in every
\* later state.
C25_RecordWrittenOnce ==
    [][\A k \in Keys :
          logs[k] # NoLog =>
              /\ logs'[k] = logs[k]
              /\ logs'[k].result = logs[k].result]_vars

\* C26: the execution log is looked up by idempotency_key alone: the
\* lookup of a request whose key has a log committed by another principal
\* answers with the stored result, invokes no effect and changes no quota.
C26_LookupByKeyAlone ==
    [][\A r \in Reqs :
          (/\ pc[r] = "lookup"
           /\ pc'[r] \notin {"lookup", "crashed"}
           /\ logs[req[r].key] # NoLog
           /\ logs[req[r].key].user_id # req[r].uid)
          => /\ pc'[r] = "done"
             /\ outcome'[r] = "Replayed"
             /\ response'[r] = logs[req[r].key].result
             /\ mockResult'[r] = NoResult
             /\ effects' = effects
             /\ users' = users
             /\ logs' = logs]_vars

\* C26 witness: B sent a key that A had committed and was answered with
\* A's stored result; A paid one unit, B none, the effect ran once.
C26_Witness ==
    \E r \in Reqs :
        /\ outcome[r] = "Replayed"
        /\ logs[req[r].key].user_id # req[r].uid
        /\ response[r] = logs[req[r].key].result
        /\ effects[req[r].key] = 1
        /\ users[req[r].uid].quota_remaining = initQuota[req[r].uid]
        /\ users[logs[req[r].key].user_id].quota_remaining =
               initQuota[logs[req[r].key].user_id] - 1

(***************************************************************************)
(* The simulated execute logic as a function: lookup, quota check and      *)
(* writes of one call happen in one transaction, so every schedule of      *)
(* calls has the result of the calls made one after the other in some      *)
(* order.  st holds the quota per user, the keys with a log and the        *)
(* outcome per request.                                                    *)
(***************************************************************************)
simulateExecuteLogic(st, r, userId, idempotencyKey) ==
    IF idempotencyKey \in st.logged
    THEN [st EXCEPT !.out[r] = "REPLAY"]
    ELSE IF st.quota[userId] <= 0
    THEN [st EXCEPT !.out[r] = "QUOTA_EXHAUSTED"]
    ELSE [st EXCEPT !.quota[userId] = @ - 1,
                    !.logged = @ \cup {idempotencyKey},
                    !.out[r] = "EXECUTED"]

RECURSIVE SimulateFrom(_, _, _)
SimulateFrom(st, order, i) ==
    IF i > Len(order) THEN st
    ELSE SimulateFrom(simulateExecuteLogic(st, order[i], req[order[i]].uid,
                                           req[order[i]].key),
                      order, i + 1)

\* the calls of the requests made in this order from the initial store
Simulated(order) ==
    SimulateFrom([quota |-> initQuota, logged |-> {},
                  out |-> [r \in Reqs |-> "none"]], order, 1)

\* the orders in which the requests can be made
Orders == {o \in [1..NReq -> Reqs] : \A i, j \in 1..NReq : o[i] = o[j] => i = j}

\* what the simulation calls the way a request of the gateway ended
SimStatus(o) ==
    IF o = "Executed" THEN "EXECUTED"
    ELSE IF o = "Replayed" THEN "REPLAY"
    ELSE IF o \in QuotaErrors THEN "QUOTA_EXHAUSTED"
    ELSE "other"

\* C27: when all requests (with accepted tokens) are answered, the gateway
\* has ended as the simulated execute logic does for the same requests
\* made in some order: same quotas, same keys with an execution record,
\* same Executed / Replayed outcome per request.
C27_GatewayEndsAsSimulation ==
    (\A r \in Reqs : pc[r] = "done" /\ authz[r] = "valid") =>
        \E order \in Orders :
            LET sim == Simulated(order) IN
              /\ \A p \in Principals : sim.quota[p] = users[p].quota_remaining
              /\ sim.logged = {k \in Keys : logs[k] # NoLog}
              /\ \A r \in Reqs : sim.out[r] = SimStatus(outcome[r])

NoKey == {r \in Reqs : pc[r] # "idle" /\ req[r].key = "none"}

\* C22 as stated: a request without idempotency_key is answered 400, with
\* no effect invoked, no quota spent and no log written.
C22_NoKeyAnswered400 ==
    \A r \in NoKey :
        /\ pc[r] = "done" => outcome[r] = "E400"
        /\ mockResult[r] = NoResult
        /\ \A k \in Keys : logs[k] # NoLog => logs[k].request_id # r

\* C22, amended: a request without idempotency_key that authenticateJWT
\* and checkBillingStatus let through is answered 400 before the handler
\* reaches the store: it never gets to the lookup or the transaction, no
\* effect is invoked for it, and the step that answers it changes neither
\* the users nor the logs.
C22_NoKeyPastMiddleware400 ==
    /\ [](\A r \in NoKey :
             /\ pc[r] \in {"auth", "billing", "done"}
             /\ outcome[r] \notin {"Executed", "Replayed", "E500_user",
                                   "E500_quota", "E500_tx"}
             /\ mockResult[r] = NoResult
             /\ \A k \in Keys : logs[k] # NoLog => logs[k].request_id # r)
    /\ [][\A r \in NoKey :
             (pc[r] = "billing" /\ pc'[r] # "billing") =>
                 /\ pc'[r] = "done"
                 /\ Entitled(r) => outcome'[r] \in {"E400", "E500_billing"}
                 /\ outcome'[r] = "E400" =>
                        /\ users' = users
                        /\ logs' = logs
                        /\ effects' = effects]_vars

\* C22 witness: a request without idempotency_key of an entitled user was
\* answered 400; quota and logs are as at the start.
C22_Witness ==
    \E r \in NoKey :
        /\ outcome[r] = "E400"
        /\ users[req[r].uid].quota_remaining = initQuota[req[r].uid]
        /\ initQuota[req[r].uid] > 0
        /\ \A k \in Keys : logs[k] = NoLog

(***************************************************************************)
(* Properties of run_javascript                                            *)
(***************************************************************************)
Spawned == {i \in Invs : inv[i].st \in {"running", "removing", "returned", "threw"}
                          /\ inv[i].timeout # 0}

\* C18: the process is spawned with a timeout of 5 seconds when
\* timeout_seconds is not given, and with a timeout of at most 60 seconds
\* whatever timeout_seconds is.
C18_TimeoutDefaultAndCap ==
    \A i \in Spawned :
        /\ inv[i].timeout_seconds = Undefined => inv[i].timeout = 5 * 1000
        /\ inv[i].timeout <= 60 * 1000

Ended == {i \in Invs : inv[i].st \in {"returned", "threw"}}

\* C28: when an invocation has ended, by returning or by throwing (exit
\* code 0 or not, timeout kill, spawn error), the script file it wrote is
\* no longer in the working directory.
C28_TempScriptRemoved ==
    \A i \in Ended : cwd[inv[i].scriptFileName] = NoFile

\* the invocation has written its file and its process has not ended
Pending(j) == inv[j].st \in {"written", "running"}

\* C29: invocations that overlap each run the script they were given, and
\* the rm of one does not remove the file another one has written and
\* still needs.
C29_EachRunsItsOwnScript ==
    /\ [](\A i \in Invs : inv[i].ran # NoFile => inv[i].ran = inv[i].javascript)
    /\ [][\A i, j \in Invs :
             (/\ i # j
              /\ inv[i].st = "removing"
              /\ inv'[i].st = "returned"
              /\ Pending(j))
             => cwd'[inv[j].scriptFileName] # NoFile]_vars

(***************************************************************************)
(* Properties of autoFixLy                                                 *)
(***************************************************************************)
\* C30: a run of autoFixLy on a file that a run has already fixed changes
\* nothing and reports no replacement ("Pattern not found or already
\* fixed"): the file after two runs is the file after one run.
C30_SecondRunChangesNothing ==
    [][(runs >= 1 /\ runs' = runs + 1 /\ flowResult.message = "Fixed") =>
           /\ targetFile' = targetFile
           /\ flowResult'.replacementsCount = 0
           /\ flowResult'.message = "Pattern not found or already fixed."]_vars

====
